---- MODULE Spec2Model ----
(***************************************************************************)
(* pg_dependences: dependency discovery over a PostgreSQL catalog.         *)
(*                                                                         *)
(* A character is a one-character string; a text or an identifier is a     *)
(* sequence of characters.  The database is a snapshot `db` of the catalog *)
(* relations the queries read (pg_proc, pg_views, information_schema),     *)
(* with the semantics the SQL standard gives them: constraint names are    *)
(* unique within a schema, a table and a view never share a name.          *)
(* A Python object is a record with a fresh `id`: Table and Column define  *)
(* no __eq__, so `x in list` compares object identity.                     *)
(***************************************************************************)
EXTENDS Integers, Sequences, FiniteSets, TLC

VARIABLES db, opt, pc, exit, nextId, table, scanned, pos, res, depth,
          childs_list, fkeys_list, plotted, nodes, edges, rendered, printed, queries, ret

(***************************************************************************)
(* db          the catalog snapshot the queries read                       *)
(* opt         the command line: schema, --table, --verbose                *)
(* pc, exit    where run stands, and the exit status once it has ended     *)
(* nextId      the identity the next constructed Python object gets        *)
(* table       the root Table of create_table                              *)
(* scanned, pos, res   recursive_childs' work list, the position of its    *)
(*             for loop, and its result                                    *)
(* childs_list, fkeys_list   what recursive_childs and fkeys returned      *)
(* plotted, nodes, edges, rendered   Graph.plotted, the graph.node and     *)
(*             graph.edge calls in order, and whether render has run       *)
(* printed     the rows of the schema listing                              *)
(* ret         what a single childs call returned (SpecMatch)              *)
(* History, read by the properties only:                                   *)
(* queries     the queries issued, in order                                *)
(* depth       the level at which each object of the work list was         *)
(*             enqueued, by object identity (the root at level 0)          *)
(***************************************************************************)
vars == <<db, opt, pc, exit, nextId, table, scanned, pos, res, depth,
          childs_list, fkeys_list, plotted, nodes, edges, rendered, printed, queries, ret>>

None == "None"

(***************************************************************************)
(* Bounds of the model.                                                    *)
(***************************************************************************)
\* recursive_childs is followed while its work list holds at most this many objects
MaxScanned == 6

(***************************************************************************)
(* Text: character codes and the orderings ORDER BY uses.                  *)
(***************************************************************************)
Letters == <<"a","b","c","d","e","f","g","h","i","j","k","l","m",
             "n","o","p","q","r","s","t","u","v","w","x","y","z">>

Code(c) ==
  CASE c = "\n" -> 10
    [] c = "\r" -> 13
    [] c = " " -> 32
    [] c = "\"" -> 34
    [] c = "(" -> 40
    [] c = ")" -> 41
    [] c = "." -> 46
    [] c = ";" -> 59
    [] c = "_" -> 95
    [] OTHER -> 96 + (CHOOSE i \in 1..26 : Letters[i] = c)

\* a < b for two texts, character by character
TextLess(a, b) ==
  \E k \in 0..Len(a) :
     /\ k <= Len(b)
     /\ \A i \in 1..k : a[i] = b[i]
     /\ \/ k = Len(a) /\ k < Len(b)
        \/ k < Len(a) /\ k < Len(b) /\ Code(a[k+1]) < Code(b[k+1])

\* a < b for two arrays of texts (array_agg results), element by element
ArrayLess(a, b) ==
  \E k \in 0..Len(a) :
     /\ k <= Len(b)
     /\ \A i \in 1..k : a[i] = b[i]
     /\ \/ k = Len(a) /\ k < Len(b)
        \/ k < Len(a) /\ k < Len(b) /\ TextLess(a[k+1], b[k+1])

TypeRank(t) ==
  CASE t = "BASE TABLE" -> 1
    [] t = "FUNCTION" -> 2
    [] t = "VIEW" -> 3

\* ORDER BY 1,2,3 over (type, schema_name, table_name)
RowLess(x, y) ==
  \/ TypeRank(x.type) < TypeRank(y.type)
  \/ /\ x.type = y.type
     /\ \/ TextLess(x.schema_name, y.schema_name)
        \/ x.schema_name = y.schema_name /\ TextLess(x.table_name, y.table_name)

RECURSIVE SortRows(_)
SortRows(S) ==
  IF S = {} THEN <<>>
  ELSE LET m == CHOOSE x \in S : \A y \in S : ~RowLess(y, x)
       IN <<m>> \o SortRows(S \ {m})

(***************************************************************************)
(* SIMILAR TO.  A pattern is a sequence of elements: % (any string),       *)
(* _ (any one character), a literal character, (c)? and (c)*.              *)
(* The period is not a metacharacter of SIMILAR TO.                        *)
(***************************************************************************)
AnyString == [k |-> "any", c |-> ""]
AnyChar == [k |-> "one", c |-> ""]
Lit(c) == [k |-> "lit", c |-> c]
Opt(c) == [k |-> "opt", c |-> c]
Star(c) == [k |-> "star", c |-> c]

\* the positions of `text` one pattern element can lead to from the positions P
Step(text, e, P) ==
  LET n == Len(text)
      lit == {p + 1 : p \in {q \in P : q < n /\ text[q+1] = e.c}}
  IN CASE e.k = "lit" -> lit
       [] e.k = "one" -> {p + 1 : p \in {q \in P : q < n}}
       [] e.k = "opt" -> P \cup lit
       [] e.k = "star" ->
            {q \in 0..n : \E p \in P : p <= q /\ \A i \in (p+1)..q : text[i] = e.c}
       [] e.k = "any" -> {q \in 0..n : \E p \in P : p <= q}

RECURSIVE Positions(_, _, _, _)
Positions(text, pat, i, P) ==
  IF i > Len(pat) THEN P
  ELSE Positions(text, pat, i + 1, Step(text, pat[i], P))

\* text SIMILAR TO pat: the whole text matches
SimilarTo(text, pat) == Len(text) \in Positions(text, pat, 1, {0})

\* str.format splices the identifier into the pattern unescaped:
\* its `_` and `%` are pattern metacharacters, its other characters literals
Format(ident) ==
  [i \in 1..Len(ident) |->
     IF ident[i] = "_" THEN AnyChar ELSE IF ident[i] = "%" THEN AnyString ELSE Lit(ident[i])]

\* '% (\()*(")?{0}(")?.(")?{1}(")?(\))*(;)?(\()? %'.format(schema, name)
QualifiedPattern(schema, name) ==
  <<AnyString, Lit(" "), Star("("), Opt("\"")>> \o Format(schema)
    \o <<Opt("\""), Lit("."), Opt("\"")>> \o Format(name)
    \o <<Opt("\""), Star(")"), Opt(";"), Opt("("), Lit(" "), AnyString>>

\* '% (\()*(")?{0}(")?(\))*(;)?(\()? %'.format(name)
BarePattern(name) ==
  <<AnyString, Lit(" "), Star("("), Opt("\"")>> \o Format(name)
    \o <<Opt("\""), Star(")"), Opt(";"), Opt("("), Lit(" "), AnyString>>

\* regexp_replace(definition, E'[\n\r]+', ' ', 'g')
RECURSIVE regexp_replace(_)
regexp_replace(text) ==
  IF text = <<>> THEN <<>>
  ELSE IF Head(text) \in {"\n", "\r"}
       THEN IF Len(text) > 1 /\ text[2] \in {"\n", "\r"}
            THEN regexp_replace(Tail(text))
            ELSE <<" ">> \o regexp_replace(Tail(text))
       ELSE <<Head(text)>> \o regexp_replace(Tail(text))

(***************************************************************************)
(* Identifiers the queries name.                                           *)
(***************************************************************************)
public == <<"p","u","b","l","i","c">>
information_schema ==
  <<"i","n","f","o","r","m","a","t","i","o","n","_","s","c","h","e","m","a">>
pg_catalog == <<"p","g","_","c","a","t","a","l","o","g">>
nmul == <<"n","m","u","l">>

(***************************************************************************)
(* The Python classes.                                                     *)
(***************************************************************************)
Table(row, id) ==
  [cls |-> "Table", id |-> id, schema |-> row.schema_name,
   name |-> row.table_name, type |-> row.type]

Column(row, id) ==
  [cls |-> "Column", id |-> id, schema |-> row.schema_name,
   table |-> row.table_name, name |-> row.name, type |-> "BASE TABLE"]

\* Table.formated and Column.formated: "{0}.{1}"
formated(o) ==
  IF o.cls = "Table" THEN o.schema \o <<".">> \o o.name
  ELSE o.schema \o <<".">> \o o.table

\* ', '.join(names)
RECURSIVE join(_)
join(names) ==
  IF names = <<>> THEN <<>>
  ELSE IF Len(names) = 1 THEN names[1]
       ELSE names[1] \o <<",", " ">> \o join(Tail(names))

\* Column.fkeys
Column_fkeys(c) == join(c.name)

\* `x in list`: neither class defines __eq__, so == is object identity
contains(list, x) == \E i \in 1..Len(list) : list[i].id = x.id

STYLES(type) ==
  CASE type = "BASE TABLE" -> [style |-> "solid", color |-> "black"]
    [] type = "FUNCTION" -> [style |-> "filled", color |-> "lightblue2"]
    [] type = "VIEW" -> [style |-> "filled", color |-> "lightgrey"]

(***************************************************************************)
(* The queries of Dependences.                                             *)
(***************************************************************************)
\* information_schema.tables restricted to table_type IN ('BASE TABLE', 'VIEW')
tables(d) ==
  {[type |-> "BASE TABLE", schema_name |-> b.table_schema, table_name |-> b.table_name]
     : b \in d.base_tables}
  \cup {[type |-> "VIEW", schema_name |-> v.schemaname, table_name |-> v.viewname]
     : v \in d.pg_views}

\* create_table's rows, wrongly: a missing object is taken for a table
create_table_rows_any(d, schema, tbl) ==
  LET found == SortRows({x \in tables(d) : x.schema_name = schema /\ x.table_name = tbl})
  IN IF found = <<>>
     THEN <<[type |-> "BASE TABLE", schema_name |-> schema, table_name |-> tbl]>>
     ELSE found

\* the rows of create_table's query
create_table_rows(d, schema, tbl) ==
  SortRows({r \in tables(d) : r.schema_name = schema /\ r.table_name = tbl})

\* the rows of schema_list's query
schema_list_rows(d, schema) ==
  SortRows({r \in tables(d) : r.schema_name = schema})

\* WHERE definition SIMILAR TO %s OR (definition SIMILAR TO %s AND schema_name=%s)
childs_where(x, t) ==
  \/ SimilarTo(x.definition, QualifiedPattern(t.schema, t.name))
  \/ /\ SimilarTo(x.definition, BarePattern(t.name))
     /\ x.schema_name = t.schema

\* the CTE f: functions outside the reserved schemas, the target itself excluded
childs_f(d, t) ==
  {[type |-> "FUNCTION", schema_name |-> p.nspname, table_name |-> p.proname,
    definition |-> regexp_replace(p.definition)]
     : p \in {q \in d.pg_proc :
                /\ q.nspname \notin {public, information_schema, pg_catalog}
                /\ q.proname # nmul
                /\ ~(q.nspname = t.schema /\ q.proname = t.name)}}

\* the CTE v: views outside the reserved schemas
childs_v(d, t) ==
  {[type |-> "VIEW", schema_name |-> v.schemaname, table_name |-> v.viewname,
    definition |-> regexp_replace(v.definition)]
     : v \in {w \in d.pg_views :
                w.schemaname \notin {public, information_schema, pg_catalog, nmul}}}

\* the rows of childs' query: (type, schema_name, table_name) of r = f UNION v
\* where the definition matches, ORDER BY 1,2,3
childs_rows(d, t) ==
  LET r == childs_f(d, t) \cup childs_v(d, t)
      hit == SortRows({x \in r : childs_where(x, t)})
  IN [i \in 1..Len(hit) |->
        [type |-> hit[i].type, schema_name |-> hit[i].schema_name,
         table_name |-> hit[i].table_name]]

\* array_agg, wrongly: the columns in alphabetical order
RECURSIVE array_agg_by_name(_)
array_agg_by_name(rows) ==
  IF rows = {} THEN <<>>
  ELSE LET m == CHOOSE x \in rows : \A y \in rows :
                  x.column_name = y.column_name \/ TextLess(x.column_name, y.column_name)
       IN <<m.column_name>> \o array_agg_by_name(rows \ {m})

\* array_agg(column_name) over the rows ORDER BY ordinal_position,
\* position_in_unique_constraint
RECURSIVE array_agg(_)
array_agg(rows) ==
  IF rows = {} THEN <<>>
  ELSE LET m == CHOOSE x \in rows : \A y \in rows :
                  \/ x.ordinal_position < y.ordinal_position
                  \/ /\ x.ordinal_position = y.ordinal_position
                     /\ x.position_in_unique_constraint
                          <= y.position_in_unique_constraint
       IN <<m.column_name>> \o array_agg(rows \ {m})

\* the key a GROUP BY or a join USING compares
constraint_key(x) == <<x.constraint_schema, x.constraint_name>>

\* the subquery refer: constraint_column_usage grouped by constraint and table
fkeys_refer(d) ==
  {[constraint_schema |-> a.constraint_schema, constraint_name |-> a.constraint_name,
    table_schema |-> a.table_schema, table_name |-> a.table_name]
     : a \in d.constraint_column_usage}

\* the subquery rest: key_column_usage grouped by constraint and table
fkeys_rest(d) ==
  {[constraint_schema |-> a.constraint_schema, constraint_name |-> a.constraint_name,
    table_schema |-> a.table_schema, table_name |-> a.table_name,
    column_name |-> array_agg({b \in d.key_column_usage :
                       /\ constraint_key(b) = constraint_key(a)
                       /\ b.table_schema = a.table_schema
                       /\ b.table_name = a.table_name})]
     : a \in d.key_column_usage}

\* ORDER BY 1,2,3 over (schema_name, table_name, name) of the joined rows
fkeys_less(x, y) ==
  \/ TextLess(x[3].table_schema, y[3].table_schema)
  \/ /\ x[3].table_schema = y[3].table_schema
     /\ \/ TextLess(x[3].table_name, y[3].table_name)
        \/ /\ x[3].table_name = y[3].table_name
           /\ ArrayLess(x[3].column_name, y[3].column_name)

RECURSIVE fkeys_sort(_)
fkeys_sort(S) ==
  IF S = {} THEN <<>>
  ELSE LET m == CHOOSE x \in S : \A y \in S : ~fkeys_less(y, x)
       IN <<m>> \o fkeys_sort(S \ {m})

\* the rows of fkeys' query: refer JOIN referential_constraints JOIN rest
fkeys_rows(d, t) ==
  LET joined == {j \in fkeys_refer(d) \X d.referential_constraints \X fkeys_rest(d) :
                   /\ constraint_key(j[1]) = constraint_key(j[2])
                   /\ constraint_key(j[2]) = constraint_key(j[3])
                   /\ j[1].table_schema = t.schema
                   /\ j[1].table_name = t.name}
      hit == fkeys_sort(joined)
  IN [i \in 1..Len(hit) |->
        [schema_name |-> hit[i][3].table_schema, table_name |-> hit[i][3].table_name,
         name |-> hit[i][3].column_name]]

(***************************************************************************)
(* Graph: the calls made on the graphviz digraph, in order.                *)
(***************************************************************************)
\* Graph.__init__
Graph_init == [plotted |-> <<>>, nodes |-> <<>>, edges |-> <<>>]

\* if o not in self.plotted: self.graph.node(...); self.plotted.append(o)
add_node(g, o) ==
  IF contains(g.plotted, o) THEN g
  ELSE [g EXCEPT !.plotted = Append(@, o),
                 !.nodes = Append(@, [name |-> formated(o),
                                      style |-> STYLES(o.type).style,
                                      color |-> STYLES(o.type).color])]

\* self.graph.edge(parent.formated(), child.formated()[, label=...])
add_edge(g, parent, child, label) ==
  [g EXCEPT !.edges = Append(@, [tail |-> formated(parent),
                                 head |-> formated(child), label |-> label])]

\* for child in childs: from the i-th child on
RECURSIVE graph_children(_, _, _, _, _)
graph_children(g, parent, childs, i, fk) ==
  IF i > Len(childs) THEN g
  ELSE graph_children(
         add_edge(add_node(g, childs[i]), parent, childs[i],
                  IF fk THEN Column_fkeys(childs[i]) ELSE <<>>),
         parent, childs, i + 1, fk)

\* Graph.graph_childs: from the i-th [parent, childs] pair on
RECURSIVE graph_childs(_, _, _)
graph_childs(g, list, i) ==
  IF i > Len(list) THEN g
  ELSE graph_childs(
         graph_children(add_node(g, list[i][1]), list[i][1], list[i][2], 1, FALSE),
         list, i + 1)

\* Graph.graph_fkeys
graph_fkeys(g, pair) ==
  graph_children(add_node(g, pair[1]), pair[1], pair[2], 1, TRUE)

(***************************************************************************)
(* recursive_childs.                                                       *)
(***************************************************************************)
\* [scanned.append(c) for c in childs if c not in scanned], from the i-th child on
RECURSIVE append_new(_, _, _)
append_new(list, childs, i) ==
  IF i > Len(childs) THEN list
  ELSE append_new(IF contains(list, childs[i]) THEN list ELSE Append(list, childs[i]),
                  childs, i + 1)

\* enqueue, wrongly: the children go right behind the current position (depth first)
enqueue_front(list, p, childs) ==
  SubSeq(list, 1, p) \o childs \o SubSeq(list, p + 1, Len(list))

\* the work list after the iteration at position p has enqueued its children
enqueue(list, p, childs) == append_new(list, childs, 1)

(***************************************************************************)
(* run: the command.                                                       *)
(***************************************************************************)
\* dep = Dependences(...): psycopg2.connect raises when the database is unreachable
Connect ==
  /\ pc = "start"
  /\ IF db.up THEN pc' = "connected" /\ exit' = exit
     ELSE pc' = "failed" /\ exit' = 1
  /\ UNCHANGED <<db, opt, nextId, table, scanned, pos, res, depth, childs_list,
                 fkeys_list, plotted, nodes, edges, rendered, printed, queries, ret>>

\* if not table: the listing of first-level counts for every object of the schema
Listing ==
  /\ pc = "connected"
  /\ ~opt.has_table \/ opt.table = <<>>
  /\ \E ts \in {schema_list_rows(db, opt.schema)} :
        /\ printed' = [i \in 1..Len(ts) |->
                         <<ts[i].schema_name, ts[i].type, ts[i].table_name,
                           Len(childs_rows(db, Table(ts[i], nextId + i - 1))),
                           Len(fkeys_rows(db, Table(ts[i], nextId + i - 1)))>>]
        /\ queries' = <<[q |-> "schema_list", schema |-> opt.schema, name |-> <<>>]>>
                      \o [i \in 1..(2 * Len(ts)) |->
                            [q |-> IF i % 2 = 1 THEN "childs" ELSE "fkeys",
                             schema |-> ts[(i + 1) \div 2].schema_name,
                             name |-> ts[(i + 1) \div 2].table_name]]
        /\ nextId' = nextId + Len(ts)
  /\ pc' = "done"
  /\ exit' = 0
  /\ UNCHANGED <<db, opt, table, scanned, pos, res, depth, childs_list, fkeys_list,
                 plotted, nodes, edges, rendered, ret>>

\* table = dep.create_table(schema, table): [...][0] raises IndexError on no row
create_table ==
  /\ pc = "connected"
  /\ opt.has_table /\ opt.table # <<>>
  /\ queries' = Append(queries, [q |-> "create_table", schema |-> opt.schema,
                                 name |-> opt.table])
  /\ \E rows \in {create_table_rows(db, opt.schema, opt.table)} :
        IF rows = <<>>
        THEN /\ pc' = "failed"
             /\ exit' = 1
             /\ UNCHANGED <<table, nextId>>
        ELSE /\ pc' = "recursive_childs"
             /\ table' = Table(rows[1], nextId)
             /\ nextId' = nextId + Len(rows)
             /\ exit' = exit
  /\ UNCHANGED <<db, opt, scanned, pos, res, depth, childs_list, fkeys_list,
                 plotted, nodes, edges, rendered, printed, ret>>

\* recursive_childs: res = list(); scanned = [table]
recursive_childs_begin ==
  /\ pc = "recursive_childs"
  /\ scanned = <<>>
  /\ scanned' = <<table>>
  /\ depth' = (table.id :> 0)
  /\ res' = <<>>
  /\ pos' = 1
  /\ UNCHANGED <<db, opt, pc, exit, nextId, table, childs_list, fkeys_list,
                 plotted, nodes, edges, rendered, printed, queries, ret>>

\* recursive_childs: one iteration of `for parent in scanned`
recursive_childs_loop ==
  /\ pc = "recursive_childs"
  /\ scanned # <<>>
  /\ pos <= Len(scanned)
  /\ \E parent \in {scanned[pos]} :
     \E rows \in {childs_rows(db, parent)} :
     \E childs \in {[i \in 1..Len(rows) |-> Table(rows[i], nextId + i - 1)]} :
     \E new \in {enqueue(scanned, pos, childs)} :
        /\ Len(new) <= MaxScanned
        /\ queries' = Append(queries, [q |-> "childs", schema |-> parent.schema,
                                       name |-> parent.name])
        /\ nextId' = nextId + Len(rows)
        /\ IF Len(childs) > 0
           THEN /\ res' = Append(res, <<parent, childs>>)
                /\ scanned' = new
                /\ depth' = [id \in DOMAIN depth \cup {new[i].id : i \in 1..Len(new)} |->
                               IF id \in DOMAIN depth THEN depth[id]
                               ELSE depth[parent.id] + 1]
           ELSE UNCHANGED <<res, scanned, depth>>
        /\ pos' = pos + 1
  /\ UNCHANGED <<db, opt, pc, exit, table, childs_list, fkeys_list,
                 plotted, nodes, edges, rendered, printed, ret>>

\* recursive_childs: return res
recursive_childs_return ==
  /\ pc = "recursive_childs"
  /\ scanned # <<>>
  /\ pos > Len(scanned)
  /\ childs_list' = res
  /\ pc' = "fkeys"
  /\ UNCHANGED <<db, opt, exit, nextId, table, scanned, pos, res, depth, fkeys_list,
                 plotted, nodes, edges, rendered, printed, queries, ret>>

\* fkeys_list = dep.fkeys(table); with --verbose no graph is generated
fkeys ==
  /\ pc = "fkeys"
  /\ \E rows \in {fkeys_rows(db, table)} :
        /\ fkeys_list' = <<table, [i \in 1..Len(rows) |-> Column(rows[i], nextId + i - 1)]>>
        /\ nextId' = nextId + Len(rows)
  /\ queries' = Append(queries, [q |-> "fkeys", schema |-> table.schema,
                                 name |-> table.name])
  /\ IF opt.verbose THEN pc' = "done" /\ exit' = 0
     ELSE pc' = "render" /\ exit' = exit
  /\ UNCHANGED <<db, opt, table, scanned, pos, res, depth, childs_list,
                 plotted, nodes, edges, rendered, printed, ret>>

\* g = Graph(...); path = g.render(childs_list, fkeys_list)
render ==
  /\ pc = "render"
  /\ \E g \in {graph_fkeys(graph_childs(Graph_init, childs_list, 1), fkeys_list)} :
        /\ plotted' = g.plotted
        /\ nodes' = g.nodes
        /\ edges' = g.edges
  /\ rendered' = TRUE
  /\ pc' = "done"
  /\ exit' = 0
  /\ UNCHANGED <<db, opt, nextId, table, scanned, pos, res, depth, childs_list,
                 fkeys_list, printed, queries, ret>>

(***************************************************************************)
(* The catalogs and command lines the runs start from.                     *)
(***************************************************************************)
s == <<"s">>
r == <<"r">>
d_none == <<" ", "x", " ">>
d_st == <<" ", "s", ".", "t", " ">>
d_st_nl == <<"\n", "s", ".", "t", "\r", "\n", "x">>
d_sa == <<" ", "s", ".", "a", " ">>
d_sa_x == <<" ", "s", ".", "a", " ", "x", " ">>
d_sb == <<" ", "s", ".", "b", " ">>
d_ra == <<" ", "r", ".", "a", " ">>
d_a == <<" ", "a", " ">>
d_sab == <<" ", "s", ".", "a", " ", "s", ".", "b", " ">>

view(schema, name, def) == [schemaname |-> schema, viewname |-> name, definition |-> def]
proc(schema, name, def) == [nspname |-> schema, proname |-> name, definition |-> def]
base(schema, name) == [table_schema |-> schema, table_name |-> name]

\* the views s.a, s.b, r.a, each with one of a few definitions, and public.v
ViewSets ==
  {{view(s, <<"a">>, da), view(s, <<"b">>, dbb), view(r, <<"a">>, dc),
    view(public, <<"v">>, d_st)}
     : <<da, dbb, dc>> \in {d_st, d_sb, d_a} \X {d_none, d_st_nl, d_sa}
                             \X {d_none, d_sab, d_a, d_sb}}

\* functions: none; s.f on r.a; two overloads of s.f on s.a; s.a on itself;
\* functions of a reserved schema and the reserved name
ProcSets ==
  {{},
   {proc(s, <<"f">>, d_ra)},
   {proc(s, <<"f">>, d_sa), proc(s, <<"f">>, d_sa_x)},
   {proc(s, <<"a">>, d_sa)},
   {proc(public, <<"f">>, d_st), proc(s, nmul, d_st)}}

kcu(cname, tname, col, ord, piuc) ==
  [constraint_schema |-> s, constraint_name |-> cname, table_schema |-> s,
   table_name |-> tname, column_name |-> col, ordinal_position |-> ord,
   position_in_unique_constraint |-> piuc]
ccu(cname, tname, col) ==
  [constraint_schema |-> s, constraint_name |-> cname, table_schema |-> s,
   table_name |-> tname, column_name |-> col]
refc(cname) == [constraint_schema |-> s, constraint_name |-> cname]

\* the primary key of s.t (id, k), present in every catalog
PkeyT ==
  [key_column_usage |-> {kcu(<<"p","k">>, <<"t">>, <<"i","d">>, 1, 0),
                         kcu(<<"p","k">>, <<"t">>, <<"k">>, 2, 0)},
   constraint_column_usage |-> {ccu(<<"p","k">>, <<"t">>, <<"i","d">>),
                                ccu(<<"p","k">>, <<"t">>, <<"k">>)},
   referential_constraints |-> {}]

\* s.u (b, a) -> s.t (id, k): one composite foreign key, declared b then a
FkeyU ==
  [key_column_usage |-> {kcu(<<"f","u">>, <<"u">>, <<"b">>, 1, 1),
                         kcu(<<"f","u">>, <<"u">>, <<"a">>, 2, 2)},
   constraint_column_usage |-> {ccu(<<"f","u">>, <<"t">>, <<"i","d">>),
                                ccu(<<"f","u">>, <<"t">>, <<"k">>)},
   referential_constraints |-> {refc(<<"f","u">>)}]

\* s.w (c) -> s.t (id), s.w (d) -> s.t (id): two foreign keys of one table,
\* and s.w (e) -> s.u (b)
FkeyW ==
  [key_column_usage |-> {kcu(<<"f","w">>, <<"w">>, <<"c">>, 1, 1),
                         kcu(<<"g","w">>, <<"w">>, <<"d">>, 1, 1),
                         kcu(<<"h","w">>, <<"w">>, <<"e">>, 1, 1)},
   constraint_column_usage |-> {ccu(<<"f","w">>, <<"t">>, <<"i","d">>),
                                ccu(<<"g","w">>, <<"t">>, <<"i","d">>),
                                ccu(<<"h","w">>, <<"u">>, <<"b">>)},
   referential_constraints |-> {refc(<<"f","w">>), refc(<<"g","w">>),
                                refc(<<"h","w">>)}]

ConstraintSets == {{PkeyT}, {PkeyT, FkeyU}, {PkeyT, FkeyW}, {PkeyT, FkeyU, FkeyW}}

catalog(up, views, procs, cons) ==
  [up |-> up,
   pg_views |-> views,
   pg_proc |-> procs,
   base_tables |-> {base(s, <<"t">>), base(s, <<"u">>), base(s, <<"w">>)},
   key_column_usage |-> UNION {c.key_column_usage : c \in cons},
   constraint_column_usage |-> UNION {c.constraint_column_usage : c \in cons},
   referential_constraints |-> UNION {c.referential_constraints : c \in cons}]

\* every view set with every function set, s.u holding its foreign key on s.t;
\* and every constraint set, the views and functions fixed
Catalogs ==
  {catalog(TRUE, v, p, {PkeyT, FkeyU}) : <<v, p>> \in ViewSets \X ProcSets}
  \cup {catalog(TRUE, {view(s, <<"a">>, d_st), view(r, <<"a">>, d_sa)},
                {proc(s, <<"u">>, d_st)}, c) : c \in ConstraintSets}

option(schema, has, tbl, verbose) ==
  [schema |-> schema, has_table |-> has, table |-> tbl, verbose |-> verbose]

\* no --table, --table '', and --table t, a, z (absent) in schema s or r
Options ==
  {option(s, FALSE, <<>>, FALSE), option(s, TRUE, <<>>, FALSE),
   option(r, FALSE, <<>>, TRUE),
   option(s, TRUE, <<"t">>, FALSE), option(s, TRUE, <<"t">>, TRUE),
   option(s, TRUE, <<"a">>, FALSE), option(r, TRUE, <<"a">>, FALSE),
   option(s, TRUE, <<"z">>, FALSE), option(s, TRUE, <<"z">>, TRUE)}

InitRun ==
  /\ pc = "start"
  /\ exit = None
  /\ nextId = 1
  /\ table = None
  /\ scanned = <<>>
  /\ pos = 1
  /\ res = <<>>
  /\ depth = <<>>
  /\ childs_list = None
  /\ fkeys_list = None
  /\ plotted = <<>>
  /\ nodes = <<>>
  /\ edges = <<>>
  /\ rendered = FALSE
  /\ printed = None
  /\ queries = <<>>
  /\ ret = None

Init ==
  /\ \/ db \in Catalogs /\ opt \in Options
     \/ /\ db = catalog(FALSE, {}, {}, {PkeyT})
        /\ opt \in Options
  /\ InitRun

Next ==
  \/ Connect
  \/ Listing
  \/ create_table
  \/ recursive_childs_begin
  \/ recursive_childs_loop
  \/ recursive_childs_return
  \/ fkeys
  \/ render

Spec == Init /\ [][Next]_vars

(***************************************************************************)
(* One call of Dependences.childs on a catalog with a single candidate,    *)
(* over a family of definition texts.                                      *)
(***************************************************************************)
Leads == {<<>>, <<" ">>, <<"x">>, <<" ", "(">>, <<" ", "\"">>, <<"\n">>,
          <<"x", "\r", "\n">>}
Quals == {<<>>, <<"s", ".">>, <<"r", ".">>, <<"s", "\"", ".", "\"">>}
Idents == {<<"t">>, <<"t", "x">>, <<"t", "_">>, <<"x", "t">>}
Trails == {<<>>, <<" ">>, <<"(">>, <<"(", " ">>, <<"(", "x", ")", " ">>,
           <<")", " ">>, <<";", " ">>, <<".", "c", " ">>, <<"\n">>, <<"\"", " ">>,
           <<")", ")", ";", "(", " ">>, <<"(", " ", "x", ")">>}
Mores == {<<>>, <<"t", "_", " ">>, <<"t", " ">>}

Texts ==
  {x[1] \o x[2] \o x[3] \o x[4] \o x[5] : x \in Leads \X Quals \X Idents \X Trails \X Mores}

\* the candidate: a view s.v or r.v, or a function r.v
Candidates(def) ==
  {catalog(TRUE, {view(s, <<"v">>, def)}, {}, {PkeyT}),
   catalog(TRUE, {view(r, <<"v">>, def)}, {}, {PkeyT}),
   catalog(TRUE, {}, {proc(r, <<"v">>, def)}, {PkeyT})}

\* the targets s.t and s.t_
Targets ==
  {[type |-> "BASE TABLE", schema_name |-> s, table_name |-> <<"t">>],
   [type |-> "BASE TABLE", schema_name |-> s, table_name |-> <<"t", "_">>]}

InitMatch ==
  /\ \E def \in Texts : db \in Candidates(def)
  /\ \E row \in Targets : table = Table(row, 1)
  /\ opt = option(s, FALSE, <<>>, FALSE)
  /\ pc = "call"
  /\ exit = None
  /\ nextId = 2
  /\ scanned = <<>>
  /\ pos = 1
  /\ res = <<>>
  /\ depth = <<>>
  /\ childs_list = None
  /\ fkeys_list = None
  /\ plotted = <<>>
  /\ nodes = <<>>
  /\ edges = <<>>
  /\ rendered = FALSE
  /\ printed = None
  /\ queries = <<>>
  /\ ret = <<>>

\* childs(table): the list of Table objects built from the rows
childs_call ==
  /\ pc = "call"
  /\ \E rows \in {childs_rows(db, table)} :
        /\ ret' = [i \in 1..Len(rows) |-> Table(rows[i], nextId + i - 1)]
        /\ nextId' = nextId + Len(rows)
  /\ queries' = Append(queries, [q |-> "childs", schema |-> table.schema,
                                 name |-> table.name])
  /\ pc' = "returned"
  /\ UNCHANGED <<db, opt, exit, table, scanned, pos, res, depth, childs_list,
                 fkeys_list, plotted, nodes, edges, rendered, printed>>

NextMatch == childs_call

SpecMatch == InitMatch /\ [][NextMatch]_vars

(***************************************************************************)
(* Properties.                                                             *)
(***************************************************************************)
\* the identity of a database object: (schema, name)
identity(o) == <<o.schema, IF o.cls = "Table" THEN o.name ELSE o.table>>

\* the identities childs returns for the object of identity id
childs_ids(id) ==
  LET rows == childs_rows(db, [schema |-> id[1], name |-> id[2]])
  IN [i \in 1..Len(rows) |-> <<rows[i].schema_name, rows[i].table_name>>]

\* how many times childs was called for the identity id
calls(id) ==
  Cardinality({i \in 1..Len(queries) :
                 /\ queries[i].q = "childs"
                 /\ <<queries[i].schema, queries[i].name>> = id})

\* recursive_childs is running or has run
Traversing == opt.has_table /\ scanned # <<>>

\* the root A has the single child B, and B the single child A
CycleFromRoot ==
  /\ Traversing
  /\ LET A == identity(scanned[1])
     IN /\ Len(childs_ids(A)) = 1
        /\ childs_ids(A)[1] # A
        /\ childs_ids(childs_ids(A)[1]) = <<A>>

\* C1: on a reference cycle A -> B -> A, recursive_childs(A) calls childs at most
\* once for A and at most once for B, and once both have been expanded the work
\* list is exhausted (the loop ends)
C1_CycleVisitedOnce ==
  CycleFromRoot =>
    LET A == identity(scanned[1])
        B == childs_ids(A)[1]
    IN /\ calls(A) <= 1
       /\ calls(B) <= 1
       /\ (calls(A) = 1 /\ calls(B) = 1) => pos > Len(scanned)

\* C2: in one run of recursive_childs no identity is passed to childs twice, and
\* no identity is the parent of two pairs of the result
C2_ExpandedOnce ==
  Traversing =>
    /\ \A i, j \in 1..Len(queries) :
         (i < j /\ queries[i].q = "childs" /\ queries[j].q = "childs")
           => <<queries[i].schema, queries[i].name>> # <<queries[j].schema, queries[j].name>>
    /\ \A i, j \in 1..Len(res) :
         i < j => identity(res[i][1]) # identity(res[j][1])

\* C3: after Graph.render, graph.node was called at most once per identity
C3_NodeOncePerIdentity ==
  rendered =>
    /\ \A i, j \in 1..Len(plotted) : i < j => identity(plotted[i]) # identity(plotted[j])
    /\ \A i, j \in 1..Len(nodes) : i < j => nodes[i].name # nodes[j].name

\* C4: no pair of recursive_childs' result lists its parent among the children
C4_NoSelfChild ==
  Traversing =>
    \A i \in 1..Len(res) : \A k \in 1..Len(res[i][2]) :
       identity(res[i][2][k]) # identity(res[i][1])

\* the dequeued object o has children
has_childs(o) == childs_rows(db, o) # <<>>

\* C5: the result of recursive_childs lists, in dequeue order, the pair
\* [object, childs(object)] of exactly the dequeued objects with children, the
\* work list starts with the root, and pairs come in level order
C5_FifoOrder ==
  Traversing =>
    LET expect == SelectSeq(SubSeq(scanned, 1, pos - 1), has_childs)
    IN /\ scanned[1] = table
       /\ Len(res) = Len(expect)
       /\ \A i \in 1..Len(res) :
            /\ res[i][1] = expect[i]
            /\ [k \in 1..Len(res[i][2]) |-> identity(res[i][2][k])]
                 = childs_ids(identity(expect[i]))
       /\ \A i, j \in 1..Len(res) :
            i < j => depth[res[i][1].id] <= depth[res[j][1].id]

\* the run returned pairs of two levels and dequeued an object without children
C5_Witness ==
  /\ pc = "fkeys"
  /\ Len(res) >= 2
  /\ depth[res[1][1].id] < depth[res[Len(res)][1].id]
  /\ pos - 1 > Len(res)

\* the foreign key constraints of table u (a row of base_tables) on the object t
fk_constraints(u, t) ==
  {c \in db.referential_constraints :
     /\ \E k \in db.key_column_usage :
          /\ constraint_key(k) = constraint_key(c)
          /\ k.table_schema = u.table_schema /\ k.table_name = u.table_name
     /\ \E a \in db.constraint_column_usage :
          /\ constraint_key(a) = constraint_key(c)
          /\ a.table_schema = t.schema /\ a.table_name = t.name}

\* the columns of constraint c in declaration order
decl_cols(c) ==
  LET rows == {k \in db.key_column_usage : constraint_key(k) = constraint_key(c)}
  IN [i \in 1..Cardinality(rows) |->
        (CHOOSE k \in rows : k.ordinal_position = i).column_name]

\* fkeys(table) has returned
FkeysReturned == pc = "render" \/ (pc = "done" /\ opt.has_table /\ opt.table # <<>>)

TableMissing ==
  /\ db.up
  /\ opt.has_table /\ opt.table # <<>>
  /\ ~\E x \in tables(db) : x.schema_name = opt.schema /\ x.table_name = opt.table

\* C9: when --table names a missing object the run ends in failure with a
\* non-zero exit, having issued no query but create_table's and produced no graph
C9_MissingTableFails ==
  TableMissing =>
    /\ pc \in {"start", "connected", "failed"}
    /\ pc = "failed" => exit # 0
    /\ \A i \in 1..Len(queries) : queries[i].q = "create_table"
    /\ scanned = <<>> /\ res = <<>>
    /\ ~rendered /\ nodes = <<>> /\ edges = <<>>

\* create_table has raised
C9_Witness == TableMissing /\ pc = "failed" /\ Len(queries) = 1

\* C10: after Graph.render no two graph.edge calls agree on tail, head and label
C10_NoDuplicateEdge ==
  rendered => \A i, j \in 1..Len(edges) : i < j => edges[i] # edges[j]

(***************************************************************************)
(* Properties of one childs call (SpecMatch).                              *)
(***************************************************************************)
\* the definition and the schema of the single candidate
cand_definition ==
  IF db.pg_views # {} THEN (CHOOSE v \in db.pg_views : TRUE).definition
  ELSE (CHOOSE f \in db.pg_proc : TRUE).definition

cand_schema ==
  IF db.pg_views # {} THEN (CHOOSE v \in db.pg_views : TRUE).schemaname
  ELSE (CHOOSE f \in db.pg_proc : TRUE).nspname

IdentChar(c) == c \in {Letters[i] : i \in 1..26} \cup {"_"}
Whitespace == {" ", "\n", "\r"}
NotQuote(c) == c # "\""

\* tok occurs in text as a whole token: no identifier character on either side,
\* and, when bare, no qualifying period before it
HasToken(text, tok, bare) ==
  \E i \in 0..(Len(text) - Len(tok)) :
     /\ SubSeq(text, i + 1, i + Len(tok)) = tok
     /\ i = 0 \/ (~IdentChar(text[i]) /\ (bare => text[i] # "."))
     /\ i + Len(tok) = Len(text) \/ ~IdentChar(text[i + Len(tok) + 1])

\* the qualified name of the target
qualified_name == table.schema \o <<".">> \o table.name

\* the definition names the target only as a bare token
BareOnly ==
  LET text == SelectSeq(cand_definition, NotQuote)
  IN HasToken(text, table.name, TRUE) /\ ~HasToken(text, qualified_name, FALSE)

\* C6: a candidate of another schema whose definition holds the target only as
\* the bare token name is not returned
C6_BareNameScoped ==
  (pc = "returned" /\ cand_schema # table.schema /\ BareOnly) => ret = <<>>

\* schema.name occurs preceded by whitespace and followed by whitespace, . or (
BoundedQualified ==
  LET text == cand_definition
      n == Len(qualified_name)
  IN \E i \in 1..(Len(text) - n - 1) :
        /\ text[i] \in Whitespace
        /\ SubSeq(text, i + 1, i + n) = qualified_name
        /\ text[i + n + 1] \in Whitespace \cup {".", "("}

\* schema.name occurs, and only continued by a further identifier character
OnlyContinued ==
  LET text == cand_definition
      n == Len(qualified_name)
      at == {i \in 0..(Len(text) - n) : SubSeq(text, i + 1, i + n) = qualified_name}
  IN /\ at # {}
     /\ \A i \in at : i + n < Len(text) /\ IdentChar(text[i + n + 1])
     /\ ~HasToken(SelectSeq(text, NotQuote), qualified_name, FALSE)

\* C7: for a candidate of another schema (the bare pattern does not apply), a
\* definition holding schema.name between whitespace and whitespace, . or (
\* is matched, and one holding only schema.namefoo is not
C7_QualifiedBoundary ==
  (pc = "returned" /\ cand_schema # table.schema) =>
    /\ BoundedQualified => Len(ret) = 1
    /\ OnlyContinued => ret = <<>>

====
